---- MODULE Spec2Model ----
(***************************************************************************)
(* Model of the knowledge-base ingestion pipeline of src/ingest.py:        *)
(* main = crawl_site ; extract_documents ; upsert_to_chroma.               *)
(*                                                                         *)
(* Text is modelled as a sequence of units.  A unit <<c, w>> is a run of c *)
(* characters, each w bytes wide in UTF-8, that ends at the splitter's     *)
(* finest separator (". "); the separator is kept with the unit, as the    *)
(* splitter keeps it.  A text is the concatenation of its units, the empty *)
(* string is <<>>, and a chunk is the sub-sequence of units joined in it.  *)
(***************************************************************************)
EXTENDS Integers, Sequences, FiniteSets, TLC

-----------------------------------------------------------------------------
(* Program constants *)

MAX_BYTES == 15800

UPSERT_BATCH_SIZE == 25

CRAWL_MAX_PAGES == 30

CHUNK_SIZE == 4000

CHUNK_OVERLAP == 300

COLLECTION_NAME == "netweb_knowledge_base"

required_vars == <<"CHROMA_API_KEY", "CHROMA_TENANT", "CHROMA_DATABASE">>

-----------------------------------------------------------------------------
(* Bounds of the model *)

\* the digest space md5 is folded into
HashSpace == 5

\* how many times the caller invokes main, one after the other
MaxRuns == 2

\* length of the freely composed crawl results
MaxSmallPages == 2

-----------------------------------------------------------------------------
(* Helpers *)

Range(s) == {s[k] : k \in 1..Len(s)}

Min(a, b) == IF a < b THEN a ELSE b

RECURSIVE SeqsUpTo(_, _)
SeqsUpTo(S, n) ==
    IF n = 0 THEN {<<>>}
    ELSE LET shorter == SeqsUpTo(S, n - 1)
         IN  shorter \cup {Append(s, x) : s \in {t \in shorter : Len(t) = n - 1}, x \in S}

-----------------------------------------------------------------------------
(* Utility functions of the program *)

\* len(text): the number of characters
RECURSIVE CharLen(_)
CharLen(text) ==
    IF text = <<>> THEN 0 ELSE Head(text)[1] + CharLen(Tail(text))

\* len(text.encode("utf-8")): the number of bytes
RECURSIVE ByteLen(_)
ByteLen(text) ==
    IF text = <<>> THEN 0 ELSE Head(text)[1] * Head(text)[2] + ByteLen(Tail(text))

\* hashlib.md5(...).hexdigest(): a deterministic digest of the text's bytes, folded
\* into HashSpace values (so that distinct texts may collide, as digests may)
RECURSIVE Fold(_, _)
Fold(text, h) ==
    IF text = <<>> THEN h
    ELSE Fold(Tail(text), (h * 3 + Head(text)[1] + Head(text)[2]) % HashSpace)

compute_hash(text) == ToString(Fold(text, 1))

\* the while loop of the splitter's merge: drop leading splits until what is kept
\* fits the overlap and leaves room for the next split
RECURSIVE KeepOverlap(_, _)
KeepOverlap(current, len) ==
    IF CharLen(current) > CHUNK_OVERLAP
          \/ (CharLen(current) + len > CHUNK_SIZE /\ CharLen(current) > 0)
    THEN KeepOverlap(Tail(current), len)
    ELSE current

\* the splitter's merge of small splits into chunks of at most chunk_size characters
RECURSIVE MergeSplits(_, _, _)
MergeSplits(splits, current, docs) ==
    IF splits = <<>>
    THEN IF current = <<>> THEN docs ELSE Append(docs, current)
    ELSE LET d == Head(splits)
         IN  IF CharLen(current) + d[1] > CHUNK_SIZE
             THEN IF current # <<>>
                  THEN MergeSplits(Tail(splits),
                                   Append(KeepOverlap(current, d[1]), d),
                                   Append(docs, current))
                  ELSE MergeSplits(Tail(splits), <<d>>, docs)
             ELSE MergeSplits(Tail(splits), Append(current, d), docs)

\* TEXT_SPLITTER.split_text at the finest separator: splits shorter than chunk_size
\* are merged, a split of chunk_size characters or more is emitted on its own
RECURSIVE SplitText(_, _, _)
SplitText(splits, good, out) ==
    LET flushed == IF good # <<>> THEN out \o MergeSplits(good, <<>>, <<>>) ELSE out
    IN  IF splits = <<>> THEN flushed
        ELSE IF Head(splits)[1] < CHUNK_SIZE
             THEN SplitText(Tail(splits), Append(good, Head(splits)), out)
             ELSE SplitText(Tail(splits), <<>>, Append(flushed, <<Head(splits)>>))

split_if_needed(text) ==
    IF ByteLen(text) <= MAX_BYTES THEN <<text>> ELSE SplitText(text, <<>>, <<>>)

\* ", ".join(names)
RECURSIVE Join(_)
Join(names) ==
    IF names = <<>> THEN ""
    ELSE IF Len(names) = 1 THEN names[1]
    ELSE names[1] \o ", " \o Join(Tail(names))

-----------------------------------------------------------------------------
(* Inputs: the page results a crawl can return *)

SmallA == << <<250, 1>> >>

SmallB == << <<250, 4>> >>

\* 16,650 bytes: one unit of chunk_size characters or more, then a short one
Big2 == << <<4100, 4>>, <<250, 1>> >>

\* 16,400 bytes of four equal units: the splitter yields four equal chunks
Repeat == << <<4100, 1>>, <<4100, 1>>, <<4100, 1>>, <<4100, 1>> >>

\* 15,960 bytes in 3,990 characters, each four bytes wide
Wide == << <<1995, 4>>, <<1995, 4>> >>

\* 29,850 bytes; the two chunks share the short unit in the middle
Overlapped == << <<3700, 4>>, <<250, 1>>, <<3700, 4>> >>

Dict(title) == [isDict |-> TRUE, hasTitle |-> TRUE, title |-> title]

DictNoTitle == [isDict |-> TRUE, hasTitle |-> FALSE, title |-> ""]

NoMetadata == [isDict |-> FALSE, hasTitle |-> FALSE, title |-> ""]

Page(url, success, markdown, metadata) ==
    [url |-> url, success |-> success, markdown |-> markdown, metadata |-> metadata]

PagePool ==
    { Page("u1", TRUE,  SmallA,     Dict("Home")),
      Page("u2", TRUE,  SmallA,     DictNoTitle),
      Page("u1", TRUE,  SmallB,     Dict("Home")),
      Page("u1", FALSE, SmallA,     Dict("Home")),
      Page("u2", TRUE,  <<>>,       Dict("Docs")),
      Page("u2", TRUE,  Big2,       Dict("Docs")),
      Page("u1", TRUE,  Repeat,     Dict("Home")),
      Page("u2", TRUE,  Wide,       Dict("Docs")),
      Page("u1", TRUE,  Overlapped, Dict("Home")),
      Page("u2", TRUE,  SmallA,     NoMetadata) }

\* a site of n pages with n distinct urls and the same text on each
BigSite(n, markdown) ==
    [k \in 1..n |-> Page("b" \o ToString(k), TRUE, markdown, Dict("Big"))]

BigSizes == {13, UPSERT_BATCH_SIZE, UPSERT_BATCH_SIZE + 1, CRAWL_MAX_PAGES}

\* what crawler.arun returns: a list of at most CRAWL_MAX_PAGES results ...
CrawlLists ==
    SeqsUpTo(PagePool, MaxSmallPages)
      \cup {BigSite(n, m) : n \in BigSizes, m \in {SmallA, Big2}}

\* ... or one result that is not in a list
CrawlSingles == {Page("u1", TRUE, SmallB, Dict("Home"))}

\* "results if isinstance(results, list) else [results]"
ResultList(raw, isList) == IF isList THEN raw ELSE <<raw>>

-----------------------------------------------------------------------------
(* State *)

VARIABLES
    env,        \* the required variables os.getenv finds set to a non-empty value
    store,      \* the collection: id -> [document, metadata]
    run,        \* which invocation of main this is
    pc,         \* the coordinator: idle, crawling, extracting, persisting, succeeded, failed
    ppc,        \* position inside upsert_to_chroma: validate, connect, loop ("-" outside)
    session,    \* the crawler session of "async with AsyncWebCrawler()" is open
    results,    \* result_list
    pageIdx,    \* position of "for result in results"
    chunks,     \* the chunks of the current page still to be processed
    title,      \* title of the current page
    documents, metadatas, ids, seen_ids,
    i,          \* offset of "for i in range(0, len(documents), UPSERT_BATCH_SIZE)"
    calls,      \* the collection.upsert calls issued in this run, in call order
    events,     \* validation and network calls of this run, in call order
    error,      \* the exception that left main, if any
    logged,     \* main's handler has logged the exception
    prev        \* the previous run: its page results, outcome and the store it left

vars == <<env, store, run, pc, ppc, session, results, pageIdx, chunks, title,
          documents, metadatas, ids, seen_ids, i, calls, events, error, logged, prev>>

extractVars == <<pageIdx, chunks, title, documents, metadatas, ids, seen_ids>>

NoError == [stage |-> "none", kind |-> "none", args |-> <<>>, msg |-> ""]

EmptyStore == [k \in {} |-> [document |-> <<>>, metadata |-> <<>>]]

Init ==
    /\ env \in SUBSET Range(required_vars)
    /\ store = EmptyStore
    /\ run = 1
    /\ pc = "idle"
    /\ ppc = "-"
    /\ session = FALSE
    /\ results = <<>>
    /\ pageIdx = 1
    /\ chunks = <<>>
    /\ title = ""
    /\ documents = <<>>
    /\ metadatas = <<>>
    /\ ids = <<>>
    /\ seen_ids = {}
    /\ i = 0
    /\ calls = <<>>
    /\ events = <<>>
    /\ error = NoError
    /\ logged = FALSE
    /\ prev = [valid |-> FALSE, results |-> <<>>, outcome |-> "none", store |-> EmptyStore]

-----------------------------------------------------------------------------
(* main: how an exception leaves it *)

\* main with a handler that logs the exception and does not raise it again
Propagate_swallowed(err, inTry) ==
    /\ error' = err
    /\ logged' = inTry
    /\ pc' = IF inTry THEN "succeeded" ELSE "failed"
    /\ ppc' = "-"

\* an exception raised inside the try block of main is logged by the handler and
\* raised again; one raised outside it leaves main as it is
Propagate(err, inTry) ==
    /\ error' = err
    /\ logged' = inTry
    /\ pc' = "failed"
    /\ ppc' = "-"

-----------------------------------------------------------------------------
(* crawl_site *)

\* main calls crawl_site, which opens the crawler session and calls arun
StartCrawl ==
    /\ pc = "idle"
    /\ pc' = "crawling"
    /\ session' = TRUE
    /\ events' = Append(events, "crawl")
    /\ UNCHANGED <<env, store, run, ppc, results, extractVars, i, calls, error, logged, prev>>

\* arun returns; the session is released and the results are wrapped into a list.
\* A later run crawls the site the run before it crawled.
CrawlReturn ==
    /\ pc = "crawling"
    /\ \/ \E raw \in CrawlLists :
             /\ prev.valid => ResultList(raw, TRUE) = prev.results
             /\ results' = ResultList(raw, TRUE)
       \/ \E raw \in CrawlSingles :
             /\ prev.valid => ResultList(raw, FALSE) = prev.results
             /\ results' = ResultList(raw, FALSE)
    /\ session' = FALSE
    /\ pc' = "extracting"
    /\ UNCHANGED <<env, store, run, ppc, extractVars, i, calls, events, error, logged, prev>>

\* arun raises; the session is released and the exception leaves main
CrawlRaise ==
    /\ pc = "crawling"
    /\ session' = FALSE
    /\ Propagate([stage |-> "crawl", kind |-> "CrawlError", args |-> <<>>, msg |-> ""], FALSE)
    /\ UNCHANGED <<env, store, run, results, extractVars, i, calls, events, prev>>

-----------------------------------------------------------------------------
(* extract_documents *)

\* the skip test without the test for empty text
SkipPage_successOnly(result) == ~result.success

\* "if not result.success or not result.markdown"
SkipPage(result) == ~result.success \/ result.markdown = <<>>

\* an id that is not derived from the content alone
ChunkId_perRun(url, chunk) == url \o "#" \o compute_hash(chunk) \o "-" \o ToString(run)

\* f"{result.url}#{content_hash}"
ChunkId(url, chunk) == url \o "#" \o compute_hash(chunk)

\* extraction without the duplicate test
DuplicateId_never(chunk_id, seen) == FALSE

\* "if chunk_id in seen_ids"
DuplicateId(chunk_id, seen) == chunk_id \in seen

\* result.metadata.get("title", "Webpage")
TitleOf(metadata) == IF metadata.hasTitle THEN metadata.title ELSE "Webpage"

\* the header-decorated text of a chunk
DocText(t, url, chunk) ==
    [header |-> "Source: " \o t \o "\nURL: " \o url \o "\n\n", body |-> chunk]

\* the for loop over results has no page left
LoopExhausted == pageIdx > Len(results)

\* a failed or empty page is skipped and the loop goes on
ExtractSkip ==
    /\ pc = "extracting" /\ chunks = <<>> /\ ~LoopExhausted
    /\ SkipPage(results[pageIdx])
    /\ pageIdx' = pageIdx + 1
    /\ UNCHANGED <<env, store, run, pc, ppc, session, results, chunks, title, documents,
                   metadatas, ids, seen_ids, i, calls, events, error, logged, prev>>

\* a page is split and its title read
ExtractPage ==
    /\ pc = "extracting" /\ chunks = <<>> /\ ~LoopExhausted
    /\ ~SkipPage(results[pageIdx])
    /\ results[pageIdx].metadata.isDict
    /\ chunks' = split_if_needed(results[pageIdx].markdown)
    /\ title' = TitleOf(results[pageIdx].metadata)
    /\ UNCHANGED <<env, store, run, pc, ppc, session, results, pageIdx, documents,
                   metadatas, ids, seen_ids, i, calls, events, error, logged, prev>>

\* result.metadata is None: .get raises and the exception leaves main
ExtractRaise ==
    /\ pc = "extracting" /\ chunks = <<>> /\ ~LoopExhausted
    /\ ~SkipPage(results[pageIdx])
    /\ ~results[pageIdx].metadata.isDict
    /\ Propagate([stage |-> "extract", kind |-> "AttributeError", args |-> <<>>, msg |-> ""],
                 FALSE)
    /\ UNCHANGED <<env, store, run, session, results, extractVars, i, calls, events, prev>>

\* one chunk of the current page: dropped when its id was seen, appended otherwise
ExtractChunk ==
    /\ pc = "extracting" /\ chunks # <<>>
    /\ LET result == results[pageIdx]
           chunk == Head(chunks)
           chunk_id == ChunkId(result.url, chunk)
       IN  IF DuplicateId(chunk_id, seen_ids)
           THEN UNCHANGED <<documents, metadatas, ids, seen_ids>>
           ELSE /\ documents' = Append(documents, DocText(title, result.url, chunk))
                /\ metadatas' = Append(metadatas, [source |-> result.url, title |-> title])
                /\ ids' = Append(ids, chunk_id)
                /\ seen_ids' = seen_ids \cup {chunk_id}
    /\ chunks' = Tail(chunks)
    /\ pageIdx' = IF Tail(chunks) = <<>> THEN pageIdx + 1 ELSE pageIdx
    /\ UNCHANGED <<env, store, run, pc, ppc, session, results, title, i, calls, events,
                   error, logged, prev>>

\* main calling upsert_to_chroma before the loop over the pages is over
ExtractDone_early ==
    /\ pc = "extracting" /\ chunks = <<>> /\ documents # <<>>
    /\ pc' = "persisting" /\ ppc' = "validate"
    /\ UNCHANGED <<env, store, run, session, results, extractVars, i, calls, events,
                   error, logged, prev>>

\* main without the test for an empty extraction
ExtractDone_noEmptyTest ==
    /\ pc = "extracting" /\ chunks = <<>> /\ LoopExhausted
    /\ pc' = "persisting" /\ ppc' = "validate"
    /\ UNCHANGED <<env, store, run, session, results, extractVars, i, calls, events,
                   error, logged, prev>>

\* extract_documents returns; main ends the run when there are no documents and
\* calls upsert_to_chroma otherwise
ExtractDone ==
    /\ pc = "extracting" /\ chunks = <<>> /\ LoopExhausted
    /\ IF documents = <<>>
       THEN pc' = "succeeded" /\ ppc' = "-"
       ELSE pc' = "persisting" /\ ppc' = "validate"
    /\ UNCHANGED <<env, store, run, session, results, extractVars, i, calls, events,
                   error, logged, prev>>

-----------------------------------------------------------------------------
(* upsert_to_chroma *)

\* validation that stops at the first missing variable
MissingVars_firstOnly ==
    LET all == SelectSeq(required_vars, LAMBDA v : v \notin env)
    IN  IF all = <<>> THEN <<>> ELSE <<Head(all)>>

\* "[v for v in required_vars if not os.getenv(v)]"
MissingVars == SelectSeq(required_vars, LAMBDA v : v \notin env)

validate_chroma_env ==
    /\ pc = "persisting" /\ ppc = "validate"
    /\ events' = Append(events, "validate")
    /\ IF MissingVars # <<>>
       THEN Propagate([stage |-> "persist", kind |-> "RuntimeError", args |-> MissingVars,
                       msg |-> "Missing environment variables: " \o Join(MissingVars)], TRUE)
       ELSE /\ ppc' = "connect"
            /\ UNCHANGED <<pc, error, logged>>
    /\ UNCHANGED <<env, store, run, session, results, extractVars, i, calls, prev>>

\* chromadb.CloudClient and get_or_create_collection succeed
Connect ==
    /\ pc = "persisting" /\ ppc = "connect"
    /\ events' = Append(events, "connect")
    /\ ppc' = "loop"
    /\ i' = 0
    /\ UNCHANGED <<env, store, run, pc, session, results, extractVars, calls, error,
                   logged, prev>>

\* chromadb.CloudClient or get_or_create_collection raises
ConnectRaise ==
    /\ pc = "persisting" /\ ppc = "connect"
    /\ events' = Append(events, "connect")
    /\ Propagate([stage |-> "persist", kind |-> "ConnectError", args |-> <<>>, msg |-> ""], TRUE)
    /\ UNCHANGED <<env, store, run, session, results, extractVars, i, calls, prev>>

\* a slice that is one entry short
Slice_short(s, from) == SubSeq(s, from + 1, Min(from + UPSERT_BATCH_SIZE - 1, Len(s)))

\* s[i:i + UPSERT_BATCH_SIZE]
Slice(s, from) == SubSeq(s, from + 1, Min(from + UPSERT_BATCH_SIZE, Len(s)))

Batch(from, ok) ==
    [documents |-> Slice(documents, from), metadatas |-> Slice(metadatas, from),
     ids |-> Slice(ids, from), ok |-> ok]

\* collection.upsert: an existing key has its entry replaced, a new key is inserted
Upserted(st, batch) ==
    [k \in DOMAIN st \cup Range(batch.ids) |->
        IF k \in Range(batch.ids)
        THEN LET n == CHOOSE n \in 1..Len(batch.ids) :
                        /\ batch.ids[n] = k
                        /\ \A later \in (n + 1)..Len(batch.ids) : batch.ids[later] # k
             IN  [document |-> batch.documents[n], metadata |-> batch.metadatas[n]]
        ELSE st[k]]

\* one batch is submitted and the store accepts it
UpsertBatch ==
    /\ pc = "persisting" /\ ppc = "loop" /\ i < Len(documents)
    /\ calls' = Append(calls, Batch(i, TRUE))
    /\ events' = Append(events, "upsert")
    /\ store' = Upserted(store, Batch(i, TRUE))
    /\ i' = i + UPSERT_BATCH_SIZE
    /\ UNCHANGED <<env, run, pc, ppc, session, results, extractVars, error, logged, prev>>

\* a loop that submits a rejected batch again
UpsertReject_retry ==
    /\ pc = "persisting" /\ ppc = "loop" /\ i < Len(documents)
    /\ Len(calls) < Len(documents)
    /\ calls' = Append(calls, Batch(i, FALSE))
    /\ events' = Append(events, "upsert")
    /\ UNCHANGED <<env, store, run, pc, ppc, session, results, extractVars, i, error,
                   logged, prev>>

\* one batch is submitted and the store rejects it: the exception leaves the loop
UpsertReject ==
    /\ pc = "persisting" /\ ppc = "loop" /\ i < Len(documents)
    /\ calls' = Append(calls, Batch(i, FALSE))
    /\ events' = Append(events, "upsert")
    /\ Propagate([stage |-> "persist", kind |-> "UpsertError", args |-> <<>>, msg |-> ""], TRUE)
    /\ UNCHANGED <<env, store, run, session, results, extractVars, i, prev>>

\* the loop is over; upsert_to_chroma returns and main logs success
UpsertDone ==
    /\ pc = "persisting" /\ ppc = "loop" /\ i >= Len(documents)
    /\ pc' = "succeeded"
    /\ ppc' = "-"
    /\ UNCHANGED <<env, store, run, session, results, extractVars, i, calls, events,
                   error, logged, prev>>

-----------------------------------------------------------------------------
(* The caller *)

\* the caller invokes main again; nothing but the store survives a run
NextRun ==
    /\ pc \in {"succeeded", "failed"}
    /\ run < MaxRuns
    /\ run' = run + 1
    /\ prev' = [valid   |-> prev.valid \/ error.stage # "crawl",
                results |-> IF error.stage # "crawl" THEN results ELSE prev.results,
                outcome |-> pc,
                store   |-> store]
    /\ pc' = "idle"
    /\ ppc' = "-"
    /\ results' = <<>>
    /\ pageIdx' = 1
    /\ chunks' = <<>>
    /\ title' = ""
    /\ documents' = <<>>
    /\ metadatas' = <<>>
    /\ ids' = <<>>
    /\ seen_ids' = {}
    /\ i' = 0
    /\ calls' = <<>>
    /\ events' = <<>>
    /\ error' = NoError
    /\ logged' = FALSE
    /\ UNCHANGED <<env, store, session>>

Next ==
    \/ StartCrawl
    \/ CrawlReturn
    \/ CrawlRaise
    \/ ExtractSkip
    \/ ExtractPage
    \/ ExtractRaise
    \/ ExtractChunk
    \/ ExtractDone
    \/ validate_chroma_env
    \/ Connect
    \/ ConnectRaise
    \/ UpsertBatch
    \/ UpsertReject
    \/ UpsertDone
    \/ NextRun

Spec == Init /\ [][Next]_vars

-----------------------------------------------------------------------------
(* Properties *)

StoreCalls == {"connect", "upsert"}

NetworkCalls == {"crawl", "connect", "upsert"}

Terminated == pc \in {"succeeded", "failed"}

\* the store as the current run found it
StoreAtStart == IF run = 1 THEN EmptyStore ELSE prev.store

\* extract_documents has returned its triple in this run
Extracted ==
    /\ pc \in {"persisting", "succeeded", "failed"}
    /\ error.stage \notin {"crawl", "extract"}

CeilDiv(n, b) == (n + b - 1) \div b

RECURSIVE ConcatIds(_)
ConcatIds(cs) == IF cs = <<>> THEN <<>> ELSE Head(cs).ids \o ConcatIds(Tail(cs))

NoRepeat(s) == \A a, b \in 1..Len(s) : a # b => s[a] # s[b]

\* C1: upsert_to_chroma issues ceil(N/B) upsert calls in sequence; every call carries
\* B entries except possibly the last, which carries between 1 and B; the documents,
\* metadatas and ids of a call are the same index slice; and the ids of all calls,
\* concatenated in call order, are the full id list in its order.
Thm_C1_BatchPartition ==
    LET N == Len(ids)
        B == UPSERT_BATCH_SIZE
    IN  /\ Len(calls) <= CeilDiv(N, B)
        /\ \A k \in 1..Len(calls) :
              LET c == calls[k]
              IN  /\ Len(c.ids) = IF k < CeilDiv(N, B) THEN B ELSE N - (k - 1) * B
                  /\ Len(c.ids) \in 1..B
                  /\ Len(c.documents) = Len(c.ids)
                  /\ Len(c.metadatas) = Len(c.ids)
                  /\ \A j \in 1..Len(c.ids) :
                        /\ c.ids[j] = ids[(k - 1) * B + j]
                        /\ c.documents[j] = documents[(k - 1) * B + j]
                        /\ c.metadatas[j] = metadatas[(k - 1) * B + j]
        /\ (pc = "succeeded" /\ documents # <<>>) =>
              /\ Len(calls) = CeilDiv(N, B)
              /\ ConcatIds(calls) = ids

\* C1 witness: sixty documents went out in three calls of 25, 25 and 10 entries
Wit_C1_ThreeBatches ==
    /\ pc = "succeeded"
    /\ Len(ids) = 60
    /\ Len(calls) = 3
    /\ Len(calls[3].ids) = 10

Thm_C3_UniqueIds ==
    /\ Len(documents) = Len(ids)
    /\ Len(metadatas) = Len(ids)
    /\ NoRepeat(ids)
    /\ Cardinality(seen_ids) = Len(ids)
    /\ NoRepeat(ConcatIds(calls))

\* C3 witness: the same page came twice, and a page of four equal chunks came
\* once; each left one document, and the run reached the store
Wit_C3_DuplicateDropped ==
    /\ Len(results) = 2
    /\ results[1].success /\ results[1].markdown = Repeat
    /\ results[2] = results[1]
    /\ pc = "succeeded"
    /\ Len(ids) = 1
    /\ Len(calls) = 1

\* C4: when the store rejects batch k, the batch is not submitted again, no later
\* batch is submitted, the failure reaches the caller of main, and the batches
\* before k stay in the store.
Thm_C4_RejectedBatchEndsRun ==
    /\ error.kind = "UpsertError" => (calls # <<>> /\ ~calls[Len(calls)].ok)
    /\ \A k \in 1..Len(calls) :
          IF calls[k].ok
          THEN \A j \in 1..Len(calls[k].ids) :
                  /\ calls[k].ids[j] \in DOMAIN store
                  /\ store[calls[k].ids[j]] = [document |-> calls[k].documents[j],
                                               metadata |-> calls[k].metadatas[j]]
          ELSE /\ k = Len(calls)
               /\ pc = "failed"
               /\ error.kind = "UpsertError"
               /\ logged
               /\ \A j \in 1..Len(calls[k].ids) :
                     IF calls[k].ids[j] \in DOMAIN StoreAtStart
                     THEN store[calls[k].ids[j]] = StoreAtStart[calls[k].ids[j]]
                     ELSE calls[k].ids[j] \notin DOMAIN store
               /\ calls[k].ids[1] = ids[(k - 1) * UPSERT_BATCH_SIZE + 1]
               /\ Len(SelectSeq(events, LAMBDA e : e = "upsert")) = k

\* C4 witness: the third batch was rejected after two were written
Wit_C4_ThirdBatchRejected ==
    /\ error.kind = "UpsertError"
    /\ pc = "failed"
    /\ Len(calls) = 3
    /\ calls[1].ok /\ calls[2].ok /\ ~calls[3].ok
    /\ Cardinality(DOMAIN store) = 2 * UPSERT_BATCH_SIZE

\* C5: when extraction yields no document the run ends succeeded without the
\* persister: no credential validation, no store connection, no upsert, no error.
Thm_C5_EmptyRunSucceeds ==
    (Extracted /\ documents = <<>>) =>
        /\ pc = "succeeded"
        /\ events = <<"crawl">>
        /\ calls = <<>>
        /\ error = NoError
        /\ ~logged
        /\ store = StoreAtStart

\* C5 witness: two pages, both skipped, with every credential missing
Wit_C5_EmptyRun ==
    /\ pc = "succeeded"
    /\ Len(results) = 2
    /\ documents = <<>>
    /\ env = {}

\* C6, as stated: every exception of a stage is logged by the coordinator and
\* then raised to the caller of main.
CE_C6_EveryExceptionLogged ==
    error # NoError => (logged /\ pc = "failed")

\* C6, amended: an exception raised by upsert_to_chroma is logged by the
\* coordinator and raised again; one raised by crawl_site or extract_documents
\* reaches the caller of main without the coordinator logging it; no stage is
\* run again and no exception is swallowed.
Thm_C6_ExceptionsReachCaller ==
    /\ [](/\ error # NoError <=> pc = "failed"
          /\ logged <=> error.stage = "persist"
          /\ error.stage \in {"none", "crawl", "extract", "persist"})
    /\ [][(pc = "failed" /\ run' = run) => UNCHANGED vars]_vars

\* C6 witness: extraction raised and the exception left main without being logged
Wit_C6_ExtractRaisedUnlogged ==
    /\ pc = "failed"
    /\ error.stage = "extract"
    /\ ~logged

\* C7: a run over the page results of the run before it, which succeeded, leaves
\* the store as that run left it: the same ids, the same count, and the same text
\* and metadata for every id.
Thm_C7_ReingestIsNoOp ==
    (/\ run > 1
     /\ prev.outcome = "succeeded"
     /\ pc \notin {"idle", "crawling"}
     /\ results = prev.results) =>
        /\ DOMAIN store = DOMAIN prev.store
        /\ Cardinality(DOMAIN store) = Cardinality(DOMAIN prev.store)
        /\ \A id \in DOMAIN store : store[id] = prev.store[id]

\* C7 witness: the second run wrote three batches over the first run's entries
Wit_C7_SecondRunWrote ==
    /\ run = 2
    /\ prev.outcome = "succeeded"
    /\ pc = "succeeded"
    /\ Len(calls) = 3
    /\ Cardinality(DOMAIN store) = 60

\* C8, as stated: a chunk the splitter produced has at most MAX_BYTES bytes
\* unless it is a single unit the splitter cannot divide.
CE_C8_ChunkWithinMaxBytes ==
    (/\ pc = "extracting"
     /\ chunks # <<>>
     /\ ByteLen(results[pageIdx].markdown) > MAX_BYTES) =>
        \A k \in 1..Len(chunks) : ByteLen(chunks[k]) <= MAX_BYTES \/ Len(chunks[k]) = 1

\* the ids of the chunks of the pages, in page order and split order, without
\* the pages that failed or are empty
RECURSIVE DiscoveredIds(_)
DiscoveredIds(pages) ==
    IF pages = <<>> THEN <<>>
    ELSE LET p == Head(pages)
             cs == split_if_needed(p.markdown)
         IN  (IF p.success /\ p.markdown # <<>>
              THEN [k \in 1..Len(cs) |-> ChunkId(p.url, cs[k])]
              ELSE <<>>) \o DiscoveredIds(Tail(pages))

RECURSIVE FirstOccurrences(_)
FirstOccurrences(s) ==
    IF s = <<>> THEN <<>>
    ELSE LET front == SubSeq(s, 1, Len(s) - 1)
         IN  IF s[Len(s)] \in Range(front)
             THEN FirstOccurrences(front)
             ELSE Append(FirstOccurrences(front), s[Len(s)])

\* C9: ids is the sequence got by walking the pages in input order, skipping each
\* page that failed or is empty, walking a page's chunks in split order and
\* keeping an id at its first occurrence only; a skipped page adds nothing and
\* does not stop the pages after it.
Thm_C9_DiscoveryOrder ==
    LET pagesDone == SubSeq(results, 1, Min(pageIdx - 1, Len(results)))
        current == IF chunks = <<>> THEN <<>>
                   ELSE LET p == results[pageIdx]
                            cs == split_if_needed(p.markdown)
                        IN  [k \in 1..(Len(cs) - Len(chunks)) |-> ChunkId(p.url, cs[k])]
    IN  /\ ids = FirstOccurrences(DiscoveredIds(pagesDone) \o current)
        /\ (pc = "persisting" \/ (pc = "succeeded" /\ error = NoError)) =>
                ids = FirstOccurrences(DiscoveredIds(results))

\* C9 witness: a failed page came first and the page after it gave two documents
Wit_C9_SkippedThenProcessed ==
    /\ pc = "persisting"
    /\ Len(results) = 2
    /\ ~results[1].success
    /\ results[2].markdown = Big2
    /\ Len(ids) = 2

\* C10: the stages of a run come in the order idle, crawling, extracting,
\* persisting, then succeeded or failed, none entered twice; extraction starts
\* after the crawl has returned its results and released its session, and the
\* first store call comes after the extraction of every page.
Thm_C10_StagesInOrder ==
    /\ [](/\ pc = "idle" => (events = <<>> /\ ~session)
          /\ pc = "crawling" => (session /\ documents = <<>> /\ pageIdx = 1 /\ events = <<"crawl">>)
          /\ pc = "extracting" => (~session /\ events = <<"crawl">>)
          /\ (\E e \in Range(events) : e \in StoreCalls) =>
                /\ pc \in {"persisting", "succeeded", "failed"}
                /\ pageIdx > Len(results)
                /\ chunks = <<>>
                /\ ~session)
    /\ [][run' = run =>
            /\ \/ pc' = pc
               \/ <<pc, pc'>> \in {<<"idle", "crawling">>,
                                   <<"crawling", "extracting">>, <<"crawling", "failed">>,
                                   <<"extracting", "persisting">>, <<"extracting", "succeeded">>,
                                   <<"extracting", "failed">>,
                                   <<"persisting", "succeeded">>, <<"persisting", "failed">>}
            /\ pc \in {"extracting", "persisting"} => results' = results
            /\ pc = "persisting" => UNCHANGED <<documents, metadatas, ids>>]_vars

\* C10 witness: a run went through every stage and made two upsert calls
Wit_C10_FullRun ==
    /\ pc = "succeeded"
    /\ Len(results) = UPSERT_BATCH_SIZE + 1
    /\ events = <<"crawl", "validate", "connect", "upsert", "upsert">>

====
